---- MODULE Spec2Model ----
(***************************************************************************)
(* Host side of the Loto session (src/components/GameHost.tsx).            *)
(*                                                                         *)
(* GameHost is a React function component.  Every useState value exists    *)
(* twice: the value last passed to its setter (calledNumbers, ...) and the *)
(* value the closures of the last render captured (r_calledNumbers, ...).  *)
(* A handler reads the values of the render that created it and writes     *)
(* through the setters; Render brings the closures up to date.  A callback *)
(* handed to setInterval, and the code after an await, keep the values of  *)
(* the render in which they were created.  useRef values (timerRef,        *)
(* connectionsRef) are shared by all renders.                              *)
(*                                                                         *)
(* The participant's side (src/components/GamePlayer.tsx and the chat      *)
(* overlay it mounts, src/unnamed/part_000) is a second process with its   *)
(* own state: the ticket, the participant's history and the chat log.      *)
(***************************************************************************)
EXTENDS Integers, Sequences, FiniteSets, TLC

\* ---- bounds ----
PoolSize    == 2   \* size of the draw pool (90 in the source)
NumPeers    == 2   \* DataConnections that may be made to the host
MaxTimers   == 2   \* intervals live at once
MaxPending  == 2   \* announcement requests outstanding at once
MaxInbox    == 2   \* messages remembered per peer channel (the most recent ones)
NumCols     == 2   \* columns of a ticket (9 in the source)
PerRow      == 1   \* numbers in each row of a ticket (5 in the source)
BandWidth   == 3   \* size of a column's band of numbers (about 10 in the source)
MaxHistory  == 2   \* numbers the participant's simulation calls
ChatWindow  == 2   \* retention window of the chat log (40 in the source)
MaxLog      == ChatWindow + 2   \* chat messages a log is followed for

TicketRows  == 3   \* rows of a ticket; generateTicket names rows 0 and 1 in its check

Null == 0          \* JavaScript null for currentNumber / payload.number / timerRef

Pool  == 1..PoolSize
Peers == 1..NumPeers

VARIABLES
  calledNumbers,   \* useState<number[]>: value last set
  currentNumber,   \* useState<number|null>
  currentRhyme,    \* useState<string>
  isAuto,          \* useState(false)
  r_calledNumbers, \* calledNumbers and isAuto as captured by the closures of
  r_isAuto,        \* the last render
  r_connLen,       \* connections.length of the last render (effect dependency)
  peerId,          \* FALSE until peer.on('open') has fired
  timerRef,        \* timerRef.current: id of the last interval created, or Null
  timers,          \* live intervals: id -> calledNumbers captured by their drawNumber
  pending,         \* drawNumber calls suspended at the await, in call order
  connectionsRef,  \* connectionsRef.current: sequence of peers
  connState,       \* per channel: "none", "connecting", "open", "dropped",
                   \* "closed" or "unopened"
  inbox,           \* per peer: the last messages conn.send() put on its channel
  messages,        \* GameHost useState<ChatMessage[]>: the host's chat log
  ticket,          \* GamePlayer useState<TicketData>
  history,         \* GamePlayer useState<number[]>
  currentCall,     \* GamePlayer useState<number|null>
  p_currentRhyme,  \* GamePlayer's own currentRhyme
  bingoStatus,     \* GamePlayer useState: "none", "check" or "win"
  r_ticket,        \* ticket, history and bingoStatus as captured by the
  r_history,       \* closures of GamePlayer's last render
  r_bingoStatus,
  simPending,      \* numbers whose rhyme the simulation is awaiting
  genRow,          \* generateTicket: rows filled so far, TicketRows + 1 once sorted
  chat             \* ChatOverlay useState<ChatMessage[]>

playerVars == <<ticket, history, currentCall, p_currentRhyme, bingoStatus,
                r_ticket, r_history, r_bingoStatus, simPending, genRow>>

\* the participant's process
participantVars == <<playerVars, chat>>

vars == <<calledNumbers, currentNumber, currentRhyme, isAuto,
          r_calledNumbers, r_isAuto, r_connLen,
          peerId, timerRef, timers, pending,
          connectionsRef, connState, inbox, messages, participantVars>>

gameVars == <<calledNumbers, currentNumber, currentRhyme, isAuto>>
rVars    == <<r_calledNumbers, r_isAuto, r_connLen>>
netVars  == <<connectionsRef, connState>>

\* ---- helpers ----
Range(s) == {s[i] : i \in 1..Len(s)}

\* announcement texts
Text(k)  == [kind |-> k, num |-> Null]
Rhyme(n) == [kind |-> "rhyme", num |-> n]

\* the pool without the filter on what was called
AvailableUnfiltered(hist) == Pool

\* allNumbers.filter(n => !calledNumbers.includes(n))
Available(hist) == Pool \ Range(hist)

\* seq without its i-th element
RemoveAt(s, i) == [j \in 1..(Len(s) - 1) |-> IF j < i THEN s[j] ELSE s[j + 1]]

\* connectionsRef.current.filter(c => c !== conn)
RECURSIVE Without(_, _)
Without(s, p) ==
  IF s = <<>> THEN <<>>
  ELSE IF Head(s) = p THEN Without(Tail(s), p)
       ELSE <<Head(s)>> \o Without(Tail(s), p)

\* ---- messages ----
CallNumberMsg(n, rhyme, hist) ==
  [type |-> "CALL_NUMBER", number |-> n, rhyme |-> rhyme, history |-> hist]
ResetGameMsg == [type |-> "RESET_GAME"]
SyncStateMsg(hist, cur, rhyme) ==
  [type |-> "SYNC_STATE", history |-> hist, currentNumber |-> cur, currentRhyme |-> rhyme]
JoinedMsg == [type |-> "CHAT_MESSAGE", sender |-> "System", text |-> "New player joined!"]
\* a chat message a participant sends to the host
PlayerChatMsg == [type |-> "CHAT_MESSAGE", sender |-> "Player", text |-> "hello"]

\* the peers broadcast() sends to: in connectionsRef.current and conn.open
Receivers(ref, st) == {p \in Range(ref) : st[p] = "open"}

\* conn.send(data): the channel's record of what was sent, oldest first
Send(box, msg) ==
  IF Len(box) < MaxInbox THEN Append(box, msg) ELSE Append(Tail(box), msg)

\* broadcast(data)
Broadcast(box, ref, st, msg) ==
  [p \in Peers |-> IF p \in Receivers(ref, st) THEN Send(box[p], msg) ELSE box[p]]

\* broadcast(data) when conn.send throws on channel bad: forEach goes through
\* connectionsRef.current in order and the exception ends it
RECURSIVE BroadcastThrowing(_, _, _, _, _)
BroadcastThrowing(box, ref, st, msg, bad) ==
  IF ref = <<>> THEN box
  ELSE IF st[Head(ref)] # "open" THEN BroadcastThrowing(box, Tail(ref), st, msg, bad)
  ELSE IF Head(ref) = bad THEN box
  ELSE BroadcastThrowing([box EXCEPT ![Head(ref)] = Send(box[Head(ref)], msg)],
                         Tail(ref), st, msg, bad)

\* ---- the ticket (GamePlayer.tsx, generateTicket) ----
Rows == 1..TicketRows
Cols == 1..NumCols

\* colRanges[c]: the numbers of column c
Band(c) == ((c - 1) * BandWidth + 1)..(c * BandWidth)

\* allNums of the participant's simulation: the numbers of all the bands
PlayerPool == 1..(NumCols * BandWidth)

Cell(v, m) == [value |-> v, marked |-> m]

\* Array(3).fill(null).map(() => Array(9).fill({value: null, marked: false}))
EmptyTicket == [r \in Rows |-> [c \in Cols |-> Cell(Null, FALSE)]]

\* .sort(() => 0.5 - Math.random()).slice(0, 5): the columns a row may get
RowChoices == {S \in SUBSET Cols : Cardinality(S) = PerRow}

\* a check that lets every number of the band through
AcceptsAny(t, c, num) == num \in Band(c)

\* the number the while loop of line 37 lets through for column c
Accepts(t, c, num) ==
  /\ num \in Band(c)
  /\ ~(t[1][c].value = num \/ t[2][c].value = num)

\* lines 33-41: the row r of t gets the numbers pick[c] in the columns of pick
FillRow(t, r, pick) ==
  [t EXCEPT ![r] = [c \in Cols |-> IF c \in DOMAIN pick
                                   THEN Cell(pick[c], FALSE)
                                   ELSE t[r][c]]]

\* the rows a loop pass can produce: every choice of columns and, for each
\* column, every number the while loop can end with
RowPicks(t) ==
  UNION {{pick \in {[c \in S |-> (c - 1) * BandWidth + off[c]] : off \in [S -> 1..BandWidth]}
            : \A c \in S : Accepts(t, c, pick[c])}
         : S \in RowChoices}

\* numsInCol.sort((a, b) => a - b)
RECURSIVE SortAscending(_)
SortAscending(q) ==
  IF q = <<>> THEN <<>>
  ELSE LET m    == CHOOSE i \in 1..Len(q) : \A j \in 1..Len(q) : q[i] <= q[j]
           rest == [j \in 1..(Len(q) - 1) |-> IF j < m THEN q[j] ELSE q[j + 1]]
       IN  <<q[m]>> \o SortAscending(rest)

\* [ticket[0][c].value, ticket[1][c].value, ticket[2][c].value].filter(n => n !== null)
NumsInCol(t, c) ==
  SelectSeq([r \in Rows |-> t[r][c].value], LAMBDA v : v # Null)

\* lines 44-54: the sorted numbers of each column go to its non-empty cells,
\* top to bottom
SortColumns(t) ==
  [r \in Rows |-> [c \in Cols |->
     IF t[r][c].value # Null
     THEN Cell(SortAscending(NumsInCol(t, c))[Cardinality({q \in 1..r : t[q][c].value # Null})],
               FALSE)
     ELSE t[r][c]]]

\* the tickets in which the rows up to r are filled, from those in ts in
\* which the rows before r are
AfterRow(ts, r) == UNION {{FillRow(t, r, pick) : pick \in RowPicks(t)} : t \in ts}

\* every ticket generateTicket() can return, blank being the ticket of line 17
GeneratedTickets(blank) ==
  {SortColumns(t) : t \in AfterRow(AfterRow(AfterRow({blank}, 1), 2), 3)}

\* the first number of column c the while loop lets through
LowestPick(t, S) ==
  [c \in S |-> CHOOSE num \in Band(c) :
                 /\ Accepts(t, c, num)
                 /\ \A other \in Band(c) : Accepts(t, c, other) => num <= other]

\* generateTicket() when row r draws the columns colsOf[r] and every cell
\* draws the first number it may keep
TicketOf(colsOf) ==
  LET t1 == FillRow(EmptyTicket, 1, LowestPick(EmptyTicket, colsOf[1]))
      t2 == FillRow(t1, 2, LowestPick(t1, colsOf[2]))
      t3 == FillRow(t2, 3, LowestPick(t2, colsOf[3]))
  IN  SortColumns(t3)

\* columns start, start + 1, ... (PerRow of them), wrapping round
ColsFrom(start) == {((start - 1 + k) % NumCols) + 1 : k \in 0..(PerRow - 1)}

\* the tickets a participant is followed with: every row in the same
\* columns, and each row one column further than the row above
SampleTickets ==
  {TicketOf([r \in Rows |-> ColsFrom(1)]), TicketOf([r \in Rows |-> ColsFrom(r)])}

\* ---- initial state: the first render of GameHost ----
HostMounted ==
  /\ calledNumbers = <<>> /\ currentNumber = Null
  /\ currentRhyme = Text("") /\ isAuto = FALSE
  /\ r_calledNumbers = <<>> /\ r_isAuto = FALSE /\ r_connLen = 0
  /\ peerId = FALSE
  /\ timerRef = Null /\ timers = <<>>
  /\ pending = <<>>
  /\ connectionsRef = <<>>
  /\ connState = [p \in Peers |-> "none"]
  /\ inbox = [p \in Peers |-> <<>>]
  /\ messages = <<>>

\* GamePlayer after its first render with ticket t (lines 60-65)
PlayerMounted(t) ==
  /\ ticket = t /\ history = <<>> /\ currentCall = Null
  /\ p_currentRhyme = Text("") /\ bingoStatus = "none"
  /\ r_ticket = t /\ r_history = <<>> /\ r_bingoStatus = "none"
  /\ simPending = {}
  /\ genRow = TicketRows + 1

\* the chat messages, told apart by who wrote them
ChatMsg(who) == [sender |-> who]

\* ChatOverlay after its first render: the welcome message (part_000, 15-17)
ChatMounted == chat = <<ChatMsg("System")>>

Init ==
  /\ HostMounted
  /\ PlayerMounted(TicketOf([r \in Rows |-> ColsFrom(1)]))
  /\ ChatMounted

\* The id setInterval returns: one that no live interval has.  An id that is
\* neither live nor held by timerRef is held nowhere, so it can be handed
\* out again.
NewTimerId(tm, ref) ==
  CHOOSE id \in 1..(MaxTimers + 1) :
    /\ id \notin (DOMAIN tm) \cup {ref}
    /\ \A other \in 1..(id - 1) : other \in (DOMAIN tm) \cup {ref}

\* a clearInterval that cancels nothing
ClearNothing(tm, ref) == tm

\* clearInterval(timerRef.current): the live intervals that remain
ClearInterval(tm, ref) == [t \in (DOMAIN tm) \ {ref} |-> tm[t]]

\* The request drawNumber leaves at `await generateLotoRhyme(nextNum, lang)`:
\* the locals nextNum and newHistory its continuation will use.  Two fields
\* are bookkeeping for the properties, the code has no such data: audience
\* is the set of channels open when the draw was made, preReset is set by a
\* resetGame that runs while the request is outstanding.
Request(n, newHistory) ==
  [num |-> n, history |-> newHistory, preReset |-> FALSE,
   audience |-> Receivers(connectionsRef, connState)]

\* some setter was called with a value the last render has not seen
Dirty ==
  <<calledNumbers, isAuto, Len(connectionsRef)>> # <<r_calledNumbers, r_isAuto, r_connLen>>

\* useEffect on [connections.length], lines 96-110, run by a render that
\* follows the handler whose sends are already in box
EffectSync(box) ==
  IF Len(connectionsRef) # r_connLen /\ Len(connectionsRef) > 0
  THEN Broadcast(box, connectionsRef, connState,
                 SyncStateMsg(calledNumbers', currentNumber', currentRhyme'))
  ELSE box

\* How a handler ends.  A handler React itself dispatched (a click) is
\* followed by a synchronous render before any other event runs; after a
\* timer, promise or PeerJS callback the render is a later step (Render).
Commit(sync, box) ==
  IF sync
  THEN /\ inbox' = EffectSync(box)
       /\ r_calledNumbers' = calledNumbers'
       /\ r_isAuto' = isAuto'
       /\ r_connLen' = Len(connectionsRef)
  ELSE /\ inbox' = box
       /\ UNCHANGED rVars

\* drawNumber, lines 128-134: nothing left to draw in the closure's
\* calledNumbers; stopAuto(), the end message, return
DrawExhausted(hist, sync) ==
  /\ Available(hist) = {}
  /\ timers' = ClearInterval(timers, timerRef)
  /\ isAuto' = FALSE
  /\ currentRhyme' = Text("gameover")
  /\ UNCHANGED <<calledNumbers, currentNumber, pending>>
  /\ Commit(sync, Broadcast(inbox, connectionsRef, connState,
                            CallNumberMsg(Null, Text("gameover"), hist)))

\* a drawNumber that sets the current number and forgets the history
DrawPickNumberOnly(hist, sync) ==
  /\ Len(pending) < MaxPending
  /\ \E nextNum \in Available(hist) :
       /\ currentNumber' = nextNum
       /\ calledNumbers' = hist
       /\ pending' = Append(pending, Request(nextNum, Append(hist, nextNum)))
  /\ UNCHANGED <<currentRhyme, timers, isAuto>>
  /\ Commit(sync, inbox)

\* drawNumber, lines 136-146: pick, set state, suspend at the await
DrawPick(hist, sync) ==
  /\ Len(pending) < MaxPending
  /\ \E nextNum \in Available(hist) :
       /\ currentNumber' = nextNum
       /\ calledNumbers' = Append(hist, nextNum)
       /\ pending' = Append(pending, Request(nextNum, Append(hist, nextNum)))
  /\ UNCHANGED <<currentRhyme, timers, isAuto>>
  /\ Commit(sync, inbox)

\* drawNumber called from the UI: its closure is the last render's
DrawNumber ==
  /\ \/ DrawExhausted(r_calledNumbers, TRUE)
     \/ DrawPick(r_calledNumbers, TRUE)
  /\ UNCHANGED <<peerId, timerRef, netVars, messages, participantVars>>

\* the interval fires: drawNumber of the render in which startAuto ran
TimerTick(t) ==
  /\ t \in DOMAIN timers
  /\ \/ DrawExhausted(timers[t], FALSE)
     \/ DrawPick(timers[t], FALSE)
  /\ UNCHANGED <<peerId, timerRef, netVars, messages, participantVars>>

\* generateLotoRhyme resolves for the i-th suspended drawNumber: lines 147-157
RhymeReturn(i) ==
  /\ i \in 1..Len(pending)
  /\ currentRhyme' = Rhyme(pending[i].num)
  /\ pending' = RemoveAt(pending, i)
  /\ UNCHANGED <<calledNumbers, currentNumber, isAuto, peerId,
                 timerRef, timers, netVars, messages, participantVars>>
  /\ Commit(FALSE, Broadcast(inbox, connectionsRef, connState,
                             CallNumberMsg(pending[i].num, Rhyme(pending[i].num),
                                           pending[i].history)))

\* startAuto, lines 160-165
StartAuto ==
  IF r_isAuto
  THEN /\ UNCHANGED <<gameVars, peerId, timerRef, timers, pending, netVars,
                      messages, participantVars>>
       /\ Commit(TRUE, inbox)
  ELSE /\ Cardinality(DOMAIN timers) < MaxTimers
       /\ UNCHANGED <<peerId, netVars, messages, participantVars>>
       /\ \/ \* setIsAuto(true); drawNumber() ends in stopAuto(); then setInterval
             /\ Available(r_calledNumbers) = {}
             /\ timerRef' = NewTimerId(ClearInterval(timers, timerRef), timerRef)
             /\ timers' = ClearInterval(timers, timerRef) @@ (timerRef' :> r_calledNumbers)
             /\ isAuto' = FALSE
             /\ currentRhyme' = Text("gameover")
             /\ UNCHANGED <<calledNumbers, currentNumber, pending>>
             /\ Commit(TRUE, Broadcast(inbox, connectionsRef, connState,
                                       CallNumberMsg(Null, Text("gameover"), r_calledNumbers)))
          \/ \* setIsAuto(true); drawNumber() draws; then setInterval
             /\ Len(pending) < MaxPending
             /\ \E nextNum \in Available(r_calledNumbers) :
                  /\ currentNumber' = nextNum
                  /\ calledNumbers' = Append(r_calledNumbers, nextNum)
                  /\ pending' = Append(pending, Request(nextNum, Append(r_calledNumbers, nextNum)))
             /\ timerRef' = NewTimerId(timers, timerRef)
             /\ timers' = timers @@ (timerRef' :> r_calledNumbers)
             /\ isAuto' = TRUE
             /\ UNCHANGED currentRhyme
             /\ Commit(TRUE, inbox)

\* stopAuto that only clears the flag and leaves the interval running
StopAutoFlagOnly ==
  /\ isAuto' = FALSE
  /\ UNCHANGED <<calledNumbers, currentNumber, currentRhyme, peerId,
                 timerRef, timers, pending, netVars, messages, participantVars>>
  /\ Commit(TRUE, inbox)

\* stopAuto, lines 167-170
StopAuto ==
  /\ timers' = ClearInterval(timers, timerRef)
  /\ isAuto' = FALSE
  /\ UNCHANGED <<calledNumbers, currentNumber, currentRhyme, peerId,
                 timerRef, pending, netVars, messages, participantVars>>
  /\ Commit(TRUE, inbox)

\* toggleAuto, lines 172-175
ToggleAuto == IF r_isAuto THEN StopAuto ELSE StartAuto

\* resetGame, lines 177-184
ResetGame ==
  /\ timers' = ClearInterval(timers, timerRef)   \* stopAuto()
  /\ isAuto' = FALSE
  /\ calledNumbers' = <<>>
  /\ currentNumber' = Null
  /\ currentRhyme' = Text("newgame")
  /\ pending' = [i \in 1..Len(pending) |-> [pending[i] EXCEPT !.preReset = TRUE]]
  /\ messages' = <<>>
  /\ UNCHANGED <<peerId, timerRef, netVars, participantVars>>
  /\ Commit(TRUE, Broadcast(inbox, connectionsRef, connState, ResetGameMsg))

\* React renders after a callback it did not dispatch itself
Render ==
  /\ Dirty
  /\ UNCHANGED <<gameVars, peerId, timerRef, timers, pending, netVars,
                 messages, participantVars>>
  /\ Commit(TRUE, inbox)

\* peer.on('open'), lines 38-41
PeerOpen ==
  /\ ~peerId
  /\ peerId' = TRUE
  /\ currentRhyme' = Text("ready")
  /\ UNCHANGED <<calledNumbers, currentNumber, isAuto, rVars, timerRef, timers,
                 pending, netVars, inbox, messages, participantVars>>

\* peer.on('connection'), line 43: a new DataConnection, handlers registered
Connect(p) ==
  /\ peerId
  /\ connState[p] = "none"
  /\ connState' = [connState EXCEPT ![p] = "connecting"]
  /\ UNCHANGED <<gameVars, rVars, peerId, timerRef, timers, pending,
                 connectionsRef, inbox, messages, participantVars>>

\* conn.on('open'), lines 44-72
ConnOpen(p) ==
  /\ connState[p] = "connecting"
  /\ connState' = [connState EXCEPT ![p] = "open"]
  /\ connectionsRef' = Append(connectionsRef, p)
  /\ inbox' = Broadcast(inbox, connectionsRef', connState', JoinedMsg)
  /\ UNCHANGED <<gameVars, rVars, peerId, timerRef, timers, pending,
                 messages, participantVars>>

\* the channel goes down: conn.open is false, 'close' not yet delivered
ConnDrop(p) ==
  /\ connState[p] = "open"
  /\ connState' = [connState EXCEPT ![p] = "dropped"]
  /\ inbox' = [inbox EXCEPT ![p] = <<>>]
  /\ UNCHANGED <<gameVars, rVars, peerId, timerRef, timers, pending,
                 connectionsRef, messages, participantVars>>

\* conn.on('close') that leaves the registry as it is
ConnCloseKeeps(p) ==
  /\ connState[p] \in {"connecting", "dropped"}
  /\ connState' = [connState EXCEPT ![p] = IF @ = "connecting" THEN "unopened" ELSE "closed"]
  /\ UNCHANGED <<gameVars, rVars, peerId, timerRef, timers, pending, inbox,
                 connectionsRef, messages, participantVars>>

\* conn.on('close'), lines 84-87; also for a channel that never opened
\* ("unopened" afterwards, "closed" for one that had opened)
ConnClose(p) ==
  /\ connState[p] \in {"connecting", "dropped"}
  /\ connState' = [connState EXCEPT ![p] = IF @ = "connecting" THEN "unopened" ELSE "closed"]
  /\ connectionsRef' = Without(connectionsRef, p)
  /\ UNCHANGED <<gameVars, rVars, peerId, timerRef, timers, pending, inbox,
                 messages, participantVars>>

\* conn.on('data'), lines 74-82: a chat message arrives from participant p
ConnData(p) ==
  /\ connState[p] = "open"
  /\ Len(messages) < MaxLog
  /\ messages' = Append(messages, PlayerChatMsg)
  /\ inbox' = Broadcast(inbox, connectionsRef, connState, PlayerChatMsg)
  /\ UNCHANGED <<gameVars, rVars, peerId, timerRef, timers, pending, netVars,
                 participantVars>>

\* conn.on('data') when conn.send throws on the open channel bad
ConnDataSendThrows(p, bad) ==
  /\ connState[p] = "open"
  /\ bad \in Receivers(connectionsRef, connState)
  /\ Len(messages) < MaxLog
  /\ messages' = Append(messages, PlayerChatMsg)
  /\ inbox' = BroadcastThrowing(inbox, connectionsRef, connState, PlayerChatMsg, bad)
  /\ UNCHANGED <<gameVars, rVars, peerId, timerRef, timers, pending, netVars,
                 participantVars>>

\* ---- the participant (GamePlayer.tsx) ----

\* numbersInRow.length > 0 && numbersInRow.every(cell => cell.marked)
RowComplete(row) ==
  /\ \E c \in Cols : row[c].value # Null
  /\ \A c \in Cols : row[c].value # Null => row[c].marked

\* checkWin, lines 132-148, by the branch it ends in: "row" (lines 137-140),
\* "full" (lines 145-147) or "none"
CheckWin(currentTicket) ==
  IF \E r \in Rows : RowComplete(currentTicket[r]) THEN "row"
  ELSE IF \A r \in Rows : \A c \in Cols :
             currentTicket[r][c].value # Null => currentTicket[r][c].marked
       THEN "full"
       ELSE "none"

\* what checkWin sets: setBingoStatus('win') in both winning branches,
\* setCurrentRhyme only in the row branch
ApplyVerdict(verdict) ==
  /\ bingoStatus' = IF verdict = "none" THEN bingoStatus ELSE "win"
  /\ p_currentRhyme' = IF verdict = "row" THEN Text("bingo") ELSE p_currentRhyme

\* GamePlayer re-renders: its closures see the values last set
PlayerCommit ==
  /\ r_ticket' = ticket' /\ r_history' = history' /\ r_bingoStatus' = bingoStatus'

\* the interval callback of the simulation, lines 73-103, up to its await;
\* it reads the history, ticket and bingoStatus of the render that set it up
SimTick ==
  LET available    == PlayerPool \ Range(r_history)
      userUnmarked == {r_ticket[r][c].value : r \in Rows, c \in Cols} \ {Null}
  IN  /\ r_bingoStatus # "win"
      /\ available # {}
      /\ Len(history) < MaxHistory
      /\ \E nextNum \in available \cup
                        {n \in userUnmarked :
                           /\ n \notin Range(r_history)
                           /\ \E r \in Rows, c \in Cols :
                                r_ticket[r][c].value = n /\ ~r_ticket[r][c].marked} :
           /\ history' = IF nextNum \in Range(history) THEN history
                          ELSE Append(history, nextNum)
           /\ currentCall' = nextNum
           /\ simPending' = simPending \cup {nextNum}
      /\ UNCHANGED <<ticket, p_currentRhyme, bingoStatus, r_ticket, r_history,
                     r_bingoStatus, genRow, chat>>
      /\ UNCHANGED <<gameVars, rVars, peerId, timerRef, timers, pending, netVars,
                     inbox, messages>>

\* the simulation's generateLotoRhyme resolves: lines 105-106
SimRhymeReturn(n) ==
  /\ n \in simPending
  /\ simPending' = simPending \ {n}
  /\ p_currentRhyme' = Rhyme(n)
  /\ UNCHANGED <<ticket, history, currentCall, bingoStatus, r_ticket, r_history,
                 r_bingoStatus, genRow, chat>>
  /\ UNCHANGED <<gameVars, rVars, peerId, timerRef, timers, pending, netVars,
                 inbox, messages>>

\* React renders GamePlayer after a timer or promise callback
PlayerRender ==
  /\ <<ticket, history, bingoStatus>> # <<r_ticket, r_history, r_bingoStatus>>
  /\ UNCHANGED <<ticket, history, currentCall, p_currentRhyme, bingoStatus,
                 simPending, genRow, chat>>
  /\ UNCHANGED <<gameVars, rVars, peerId, timerRef, timers, pending, netVars,
                 inbox, messages>>
  /\ PlayerCommit

\* handleCellClick without the test on the history
CellClickUnchecked(r, c) ==
  /\ ticket' = [r_ticket EXCEPT ![r][c].marked = ~@]
  /\ ApplyVerdict(CheckWin(ticket'))
  /\ UNCHANGED <<history, currentCall, simPending, genRow, chat>>
  /\ UNCHANGED <<gameVars, rVars, peerId, timerRef, timers, pending, netVars,
                 inbox, messages>>
  /\ PlayerCommit

\* handleCellClick(r, c, val), lines 118-130, val being the value of the cell
CellClick(r, c) ==
  /\ IF r_ticket[r][c].value \in Range(r_history)
     THEN /\ ticket' = [r_ticket EXCEPT ![r][c].marked = ~@]
          /\ ApplyVerdict(CheckWin(ticket'))
     ELSE UNCHANGED <<ticket, bingoStatus, p_currentRhyme>>
  /\ UNCHANGED <<history, currentCall, simPending, genRow, chat>>
  /\ UNCHANGED <<gameVars, rVars, peerId, timerRef, timers, pending, netVars,
                 inbox, messages>>
  /\ PlayerCommit

\* generateTicket, one pass of the loop of lines 30-42: the next row gets
\* its columns and numbers
GenerateRow ==
  /\ genRow < TicketRows
  /\ genRow' = genRow + 1
  /\ \E pick \in RowPicks(ticket) : ticket' = FillRow(ticket, genRow + 1, pick)
  /\ UNCHANGED <<history, currentCall, p_currentRhyme, bingoStatus, r_ticket,
                 r_history, r_bingoStatus, simPending, chat>>
  /\ UNCHANGED <<gameVars, rVars, peerId, timerRef, timers, pending, netVars,
                 inbox, messages>>

\* generateTicket, lines 44-56: the columns are sorted and the ticket returned
SortTicket ==
  /\ genRow = TicketRows
  /\ genRow' = TicketRows + 1
  /\ ticket' = SortColumns(ticket)
  /\ UNCHANGED <<history, currentCall, p_currentRhyme, bingoStatus, r_ticket,
                 r_history, r_bingoStatus, simPending, chat>>
  /\ UNCHANGED <<gameVars, rVars, peerId, timerRef, timers, pending, netVars,
                 inbox, messages>>

\* ticket t with the cells of S marked
Marked(t, S) ==
  [r \in Rows |-> [c \in Cols |-> Cell(t[r][c].value, <<r, c>> \in S)]]

\* the cells of t that hold a number
NumberCells(t) == {rc \in Rows \X Cols : t[rc[1]][rc[2]].value # Null}

\* checkWin(currentTicket) run on the ticket as it is
EvaluateWin ==
  /\ ApplyVerdict(CheckWin(ticket))
  /\ UNCHANGED <<ticket, history, currentCall, r_ticket, r_history, r_bingoStatus,
                 simPending, genRow, chat>>
  /\ UNCHANGED <<gameVars, rVars, peerId, timerRef, timers, pending, netVars,
                 inbox, messages>>

\* ---- the chat overlay (src/unnamed/part_000) ----

\* prev.slice(-n): the last n elements
LastN(q, n) == IF Len(q) <= n THEN q ELSE SubSeq(q, Len(q) - n + 1, Len(q))

\* the bot interval, lines 31-53: with a game under way (the history the
\* overlay was rendered with is not empty) a bot message is added
BotMessage ==
  /\ r_history # <<>>
  /\ chat' = Append(LastN(chat, ChatWindow), ChatMsg("Bot"))
  /\ UNCHANGED playerVars
  /\ UNCHANGED <<gameVars, rVars, peerId, timerRef, timers, pending, netVars,
                 inbox, messages>>

\* handleSend, lines 58-70, with a non-blank input
HandleSend ==
  /\ Len(chat) < MaxLog
  /\ chat' = Append(chat, ChatMsg("Me"))
  /\ UNCHANGED playerVars
  /\ UNCHANGED <<gameVars, rVars, peerId, timerRef, timers, pending, netVars,
                 inbox, messages>>

\* the game state machine of the host: its operations, its interval, the
\* announcement responses and React's renders; no PeerJS callback runs
Next ==
  \/ DrawNumber
  \/ StartAuto
  \/ StopAuto
  \/ ToggleAuto
  \/ ResetGame
  \/ Render
  \/ \E t \in 1..(MaxTimers + 1) : TimerTick(t)
  \/ \E i \in 1..MaxPending : RhymeReturn(i)

Spec == Init /\ [][Next]_vars

\* the host with participants: manual draws, resets, the announcement
\* responses, React's renders and the PeerJS callbacks
NextNet ==
  \/ DrawNumber
  \/ ResetGame
  \/ Render
  \/ PeerOpen
  \/ \E i \in 1..MaxPending : RhymeReturn(i)
  \/ \E p \in Peers : Connect(p)
  \/ \E p \in Peers : ConnOpen(p)
  \/ \E p \in Peers : ConnDrop(p)
  \/ \E p \in Peers : ConnClose(p)

SpecNet == Init /\ [][NextNet]_vars

\* the host as the hub of the participants: the PeerJS callbacks, the chat
\* relay and React's renders, with no number drawn
NextRelay ==
  \/ PeerOpen
  \/ Render
  \/ \E p \in Peers : Connect(p)
  \/ \E p \in Peers : ConnOpen(p)
  \/ \E p \in Peers : ConnDrop(p)
  \/ \E p \in Peers : ConnClose(p)
  \/ \E p \in Peers : ConnData(p)
  \/ \E p \in Peers : \E bad \in Peers : ConnDataSendThrows(p, bad)

SpecRelay == Init /\ [][NextRelay]_vars

\* a participant with one of the sample tickets
InitPlayer ==
  /\ HostMounted
  /\ \E t \in SampleTickets : PlayerMounted(t)
  /\ ChatMounted

\* the participant on its own: the simulation, its rhyme responses, the
\* clicks on the ticket and React's renders
NextPlayer ==
  \/ SimTick
  \/ PlayerRender
  \/ \E n \in PlayerPool : SimRhymeReturn(n)
  \/ \E r \in Rows : \E c \in Cols : CellClick(r, c)

SpecPlayer == InitPlayer /\ [][NextPlayer]_vars

\* the participant's chat: the simulation that gets the game under way, the
\* bot interval and the messages the participant sends
NextChat ==
  \/ SimTick
  \/ PlayerRender
  \/ \E n \in PlayerPool : SimRhymeReturn(n)
  \/ BotMessage
  \/ HandleSend

SpecChat == InitPlayer /\ [][NextChat]_vars

\* checkWin as a function: any generated ticket with any of its numbers marked
InitWin ==
  /\ HostMounted
  /\ \E t \in GeneratedTickets(EmptyTicket) : \E S \in SUBSET NumberCells(t) :
        PlayerMounted(Marked(t, S))
  /\ ChatMounted

NextWin == EvaluateWin

SpecWin == InitWin /\ [][NextWin]_vars

\* generateTicket() at its first line
InitTicket ==
  /\ HostMounted
  /\ ticket = EmptyTicket /\ genRow = 0
  /\ history = <<>> /\ currentCall = Null
  /\ p_currentRhyme = Text("") /\ bingoStatus = "none"
  /\ r_ticket = EmptyTicket /\ r_history = <<>> /\ r_bingoStatus = "none"
  /\ simPending = {}
  /\ ChatMounted

\* generateTicket() for every outcome of its random choices
NextTicket ==
  \/ GenerateRow
  \/ SortTicket

SpecTicket == InitTicket /\ [][NextTicket]_vars

\* the host left to draw automatically: numbers may be drawn by hand while
\* automatic drawing is off (with it on, the ball's click is stopAuto, line
\* 227), startAuto is clicked, and stopAuto and resetGame never are
NextAuto ==
  \/ (~r_isAuto /\ DrawNumber)
  \/ StartAuto
  \/ Render
  \/ \E t \in 1..(MaxTimers + 1) : TimerTick(t)
  \/ \E i \in 1..MaxPending : RhymeReturn(i)

\* the interval keeps firing, every announcement response arrives and React
\* renders what was set
FairAuto ==
  /\ WF_vars(\E t \in 1..(MaxTimers + 1) : TimerTick(t))
  /\ WF_vars(\E i \in 1..MaxPending : RhymeReturn(i))
  /\ WF_vars(Render)

SpecAuto == Init /\ [][NextAuto]_vars /\ FairAuto

TypeOK ==
  /\ isAuto \in BOOLEAN /\ r_isAuto \in BOOLEAN
  /\ currentNumber \in Pool \cup {Null}
  /\ Len(pending) <= MaxPending
  /\ \A p \in Peers : Len(inbox[p]) <= MaxInbox
  /\ timerRef \in 0..(MaxTimers + 1)
  /\ Cardinality(DOMAIN timers) <= MaxTimers

\* ---------------------------------------------------------------------------
\* Properties
\* ---------------------------------------------------------------------------

\* s is t with one element appended
ExtendsByOne(s, t) == Len(s) = Len(t) + 1 /\ SubSeq(s, 1, Len(t)) = t

\* a step in which some drawNumber picked a number (it left a request)
DrewANumber == Len(pending') = Len(pending) + 1

\* C1: every successful draw, manual or fired by the interval, makes
\* calledNumbers exactly one element longer and keeps the previous
\* calledNumbers as a prefix.
C1_DrawAppends == [][DrewANumber => ExtendsByOne(calledNumbers', calledNumbers)]_vars

\* C2: calledNumbers never holds a value twice and holds only numbers of the pool.
C2_DistinctInPool ==
  /\ Cardinality(Range(calledNumbers)) = Len(calledNumbers)
  /\ Range(calledNumbers) \subseteq Pool

\* C2 witness: the whole pool has been drawn while an interval is still live
\* and a draw is awaiting its announcement.
C2_Witness ==
  /\ Len(calledNumbers) = PoolSize
  /\ DOMAIN timers # {}
  /\ pending # <<>>

\* a step in which some suspended drawNumber resumed after its await
Resumed == Len(pending') < Len(pending)

\* C3: when the CallNumber of a draw goes out, no draw committed before it,
\* at a time a still-open channel was already open, is waiting for its own
\* CallNumber: every channel gets the messages in the order of the draws,
\* whatever the order of the announcement responses.
C3_CallsInCommitOrder ==
  [][Resumed =>
       \E j \in 1..Len(pending) :
          /\ pending' = RemoveAt(pending, j)
          /\ \A i \in 1..(j - 1) :
               pending[i].audience \cap Receivers(connectionsRef, connState) = {}]_vars

\* the game state a message tells its receiver is the host's state now
Describes(m) ==
  CASE m.type = "CALL_NUMBER" ->
         /\ m.history = calledNumbers
         /\ (m.number # Null => m.number = currentNumber)
    [] m.type = "RESET_GAME" -> calledNumbers = <<>> /\ currentNumber = Null
    [] m.type = "SYNC_STATE" ->
         m.history = calledNumbers /\ m.currentNumber = currentNumber
    [] OTHER -> TRUE

\* C4: a draw or reset sends its message no later than it commits the state,
\* so the last message on every open channel describes the host's current
\* calledNumbers and currentNumber.
C4_LastMessageIsCurrent ==
  \A p \in Receivers(connectionsRef, connState) :
     inbox[p] # <<>> => Describes(inbox[p][Len(inbox[p])])

\* C5: once React has rendered, every open channel has been sent a
\* SyncState since it opened (checked while the channel's record still holds
\* everything sent on it).
C5_JoinerSynced ==
  \A p \in Peers :
     (connState[p] = "open" /\ ~Dirty /\ Len(inbox[p]) < MaxInbox)
       => \E k \in 1..Len(inbox[p]) : inbox[p][k].type = "SYNC_STATE"

\* C6: a draw that started before a reset has no effect once the reset has
\* run: when its announcement arrives, calledNumbers, currentNumber and
\* currentRhyme stay as they are and nothing is sent.
C6_PreResetDrawIsInert ==
  [][\A i \in 1..Len(pending) :
        (pending[i].preReset /\ Resumed /\ pending' = RemoveAt(pending, i))
          => UNCHANGED <<calledNumbers, currentNumber, currentRhyme, inbox>>]_vars

\* C7: resetGame, in whatever state it is called, leaves calledNumbers empty,
\* currentNumber null, automatic drawing off and no interval live.
C7_ResetToIdle ==
  [][ResetGame =>
       /\ calledNumbers' = <<>> /\ currentNumber' = Null
       /\ isAuto' = FALSE /\ r_isAuto' = FALSE
       /\ DOMAIN timers' = {}]_vars

\* C7 witness: a reset has run after automatic drawing was started, while a
\* draw was still waiting for its announcement.
C7_Witness ==
  /\ currentRhyme = Text("newgame") /\ calledNumbers = <<>>
  /\ timerRef # Null /\ DOMAIN timers = {}
  /\ \E i \in 1..Len(pending) : pending[i].preReset

\* C8: startAuto called while the interval of an earlier startAuto is still
\* running does nothing: no second draw, no second interval, nothing sent.
C8_StartIsIdempotent ==
  [][(StartAuto /\ timerRef \in DOMAIN timers)
       => UNCHANGED <<gameVars, timerRef, timers, pending, inbox>>]_vars

\* C9: stopAuto leaves no interval live, only startAuto makes one live again,
\* and stopAuto with nothing running changes nothing.
C9_StopCancels ==
  [][/\ StopAuto => DOMAIN timers' = {}
     /\ (DOMAIN timers = {} /\ DOMAIN timers' # {}) => StartAuto
     /\ (StopAuto /\ DOMAIN timers = {} /\ ~isAuto)
          => UNCHANGED <<gameVars, timerRef, timers, pending>>]_vars

\* C9 witness: automatic drawing was started and then stopped in mid-game.
C9_Witness ==
  /\ timerRef # Null /\ DOMAIN timers = {} /\ ~isAuto /\ ~r_isAuto
  /\ calledNumbers # <<>> /\ Len(calledNumbers) < PoolSize
  /\ currentRhyme.kind \notin {"newgame", "gameover"}

\* C10: drawNumber run when calledNumbers already holds the whole pool draws
\* nothing, cancels the automatic cycle and announces the end of the game.
C10_ExhaustedDrawIsTerminal ==
  [][(Len(calledNumbers) = PoolSize /\ (DrawNumber \/ \E t \in 1..(MaxTimers + 1) : TimerTick(t)))
       => /\ UNCHANGED <<calledNumbers, currentNumber, pending>>
          /\ DOMAIN timers' = {}
          /\ currentRhyme' = Text("gameover")]_vars

\* C11: the announcement response never gates a draw: the step that commits
\* a draw also sends its CallNumber, carrying the drawn number and the new
\* history, to every open channel, whether or not the response ever arrives.
C11_CallNotGatedByRhyme ==
  [][DrewANumber =>
       \A p \in Receivers(connectionsRef, connState) :
          /\ inbox'[p] # <<>>
          /\ inbox'[p][Len(inbox'[p])].type = "CALL_NUMBER"
          /\ inbox'[p][Len(inbox'[p])].number = currentNumber'
          /\ inbox'[p][Len(inbox'[p])].history = calledNumbers']_vars

\* C12: the relay of a chat message puts it on every registered open channel
\* and on no other, and when the write to one channel fails the remaining
\* open channels still get it.
C12_BroadcastReachesOpen ==
  [][/\ \A p \in Peers :
          ConnData(p) =>
            \A q \in Peers :
               inbox'[q] = IF q \in Receivers(connectionsRef, connState)
                           THEN Send(inbox[q], PlayerChatMsg) ELSE inbox[q]
     /\ \A p \in Peers : \A bad \in Peers :
          ConnDataSendThrows(p, bad) =>
            \A q \in Receivers(connectionsRef, connState) \ {bad} :
               inbox'[q] = Send(inbox[q], PlayerChatMsg)]_vars

\* C13: the participant's history is always a history of the host: empty,
\* the host's calledNumbers, or the history of a draw or of a message the
\* host has on its way to the participants.
C13_HistoryFromHost ==
  \/ history = <<>>
  \/ history = calledNumbers
  \/ \E i \in 1..Len(pending) : pending[i].history = history
  \/ \E p \in Peers : \E k \in 1..Len(inbox[p]) :
        inbox[p][k].type \in {"CALL_NUMBER", "SYNC_STATE"} /\ inbox[p][k].history = history

\* C14: a channel is sent a SyncState when it joins and never again: the
\* record of a channel never holds two SyncState messages.
C14_SyncOnlyOnJoin ==
  \A p \in Peers :
     Cardinality({k \in 1..Len(inbox[p]) : inbox[p][k].type = "SYNC_STATE"}) <= 1

\* C15: a chat message from participant p is appended once to the host's
\* log and sent on to every open channel except p's own.
C15_RelayToOthers ==
  [][\A p \in Peers :
        ConnData(p) =>
          /\ messages' = Append(messages, PlayerChatMsg)
          /\ inbox'[p] = inbox[p]
          /\ \A q \in Receivers(connectionsRef, connState) \ {p} :
                inbox'[q] = Send(inbox[q], PlayerChatMsg)]_vars

\* C16: connectionsRef.current holds, once each, exactly the channels whose
\* 'open' has been reported and whose 'close' has not; the 'close' of a
\* channel that never opened leaves it as it is.
C16_RegistryIsOpenChannels ==
  /\ [](/\ Range(connectionsRef) = {p \in Peers : connState[p] \in {"open", "dropped"}}
        /\ Cardinality(Range(connectionsRef)) = Len(connectionsRef))
  /\ [][\A p \in Peers :
           (ConnClose(p) /\ connState[p] = "connecting") => UNCHANGED connectionsRef]_vars

\* C16 witness: a channel was closed before it ever opened while another
\* channel is registered.
C16_Witness ==
  /\ \E p \in Peers : connState[p] = "unopened"
  /\ \E p \in Peers : connState[p] \in {"open", "dropped"}
  /\ connectionsRef # <<>>

\* C17: neither the participant's chat log nor the host's ever holds more
\* messages than the retention window.
C17_ChatLogCapped == Len(chat) <= ChatWindow /\ Len(messages) <= ChatWindow

\* C18: a click on a cell whose value is not in the participant's history
\* (an empty cell included) leaves the whole ticket and the win status as
\* they were: no step that changes either of them is such a click.
C18_UncalledClickRejected ==
  [][(<<ticket, bingoStatus>>' # <<ticket, bingoStatus>>)
       => \A r \in Rows : \A c \in Cols :
             ticket[r][c].value \notin Range(history) => ~CellClick(r, c)]_vars

\* C18 witness: a called number has been marked on the ticket while cells
\* with numbers not called yet, and empty cells, are there to be clicked.
C18_Witness ==
  /\ \E r \in Rows : \E c \in Cols : ticket[r][c].marked
  /\ \E r \in Rows : \E c \in Cols :
        ticket[r][c].value # Null /\ ticket[r][c].value \notin Range(history)
  /\ r_history = history

\* every number of the ticket is marked
AllMarked(t) == \A r \in Rows : \A c \in Cols : t[r][c].value # Null => t[r][c].marked

\* C19: checkWin gives one of three verdicts: the full-house one exactly
\* when every number of the ticket is marked (even though rows are then
\* complete too), the row one exactly when some row is complete but not the
\* whole ticket, and none exactly when no row is complete.
C19_ThreeVerdicts ==
  /\ AllMarked(ticket) <=> CheckWin(ticket) = "full"
  /\ ((\E r \in Rows : RowComplete(ticket[r])) /\ ~AllMarked(ticket))
        <=> CheckWin(ticket) = "row"
  /\ (~\E r \in Rows : RowComplete(ticket[r])) <=> CheckWin(ticket) = "none"

\* the cells of t that are not empty, as a set of positions
NonEmpty(t) == {rc \in Rows \X Cols : t[rc[1]][rc[2]].value # Null}

\* what a returned ticket has to be
ValidTicket(t) ==
  /\ \A r \in Rows : Cardinality({c \in Cols : t[r][c].value # Null}) = PerRow
  /\ \A r \in Rows : \A c \in Cols :
        /\ t[r][c].value # Null => t[r][c].value \in Band(c)
        /\ ~t[r][c].marked
  /\ \A c \in Cols : \A r1 \in Rows : \A r2 \in Rows :
        (r1 < r2 /\ t[r1][c].value # Null /\ t[r2][c].value # Null)
          => t[r1][c].value < t[r2][c].value
  /\ \A a \in NonEmpty(t) : \A b \in NonEmpty(t) :
        a # b => t[a[1]][a[2]].value # t[b[1]][b[2]].value

\* C20: every ticket generateTicket returns has PerRow numbers in each row,
\* each in the band of its column, increasing down each column, all
\* different and none marked; and the column sort leaves every cell empty
\* or non-empty as it was.
C20_TicketWellFormed ==
  /\ [](genRow = TicketRows + 1 => ValidTicket(ticket))
  /\ [][genRow = TicketRows => NonEmpty(ticket') = NonEmpty(ticket)]_vars

\* C20 witness: a returned ticket in which one column holds a number in
\* every row.
C20_Witness ==
  /\ genRow = TicketRows + 1
  /\ \E c \in Cols : \A r \in Rows : ticket[r][c].value # Null

\* C21: once an interval is running, and with stopAuto and resetGame never
\* called, the host gets to the end of the game: calledNumbers holds the
\* whole pool, the end of the game has been announced and no interval is
\* left running.
C21_AutoRunsToTheEnd ==
  (DOMAIN timers # {})
    ~> (/\ Len(calledNumbers) = PoolSize
        /\ currentRhyme = Text("gameover")
        /\ DOMAIN timers = {})

\* C22: isAuto is true exactly when one interval is live, never more than
\* one interval is live, and a live interval is the one timerRef refers to.
C22_AutoFlagMatchesTimer ==
  /\ isAuto <=> (Cardinality(DOMAIN timers) = 1)
  /\ Cardinality(DOMAIN timers) <= 1
  /\ DOMAIN timers \subseteq {timerRef}

\* C23: with no announcement response outstanding, currentRhyme is the
\* announcement of the host's state: the rhyme of currentNumber after a
\* draw (or the end-of-game text once the pool is used up), and no rhyme of
\* any number while there is no current number.
C23_RhymeIsCurrent ==
  pending = <<>> =>
    IF currentNumber # Null
    THEN \/ currentRhyme = Rhyme(currentNumber)
         \/ currentRhyme = Text("gameover") /\ Len(calledNumbers) = PoolSize
    ELSE currentRhyme.kind # "rhyme"

\* C24: currentNumber is null while calledNumbers is empty and is the last
\* element of calledNumbers otherwise.
C24_CurrentIsLastCalled ==
  IF calledNumbers = <<>>
  THEN currentNumber = Null
  ELSE currentNumber = calledNumbers[Len(calledNumbers)]

\* C24 witness: the last number of the pool has just been drawn, after
\* automatic drawing had been started, and its announcement is awaited.
C24_Witness ==
  /\ Len(calledNumbers) = PoolSize
  /\ currentNumber = calledNumbers[PoolSize]
  /\ timerRef # Null
  /\ \E i \in 1..Len(pending) : pending[i].num = currentNumber

\* C25: every marked cell of the participant's ticket holds a number, and
\* that number is in the participant's history; and the step that declares
\* a win leaves a complete row all of whose numbers are in the history.
C25_MarksAreCalled ==
  /\ [](\A r \in Rows : \A c \in Cols :
          ticket[r][c].marked =>
            ticket[r][c].value # Null /\ ticket[r][c].value \in Range(history))
  /\ [][(bingoStatus # "win" /\ bingoStatus' = "win")
          => \E r \in Rows :
                /\ RowComplete(ticket'[r])
                /\ \A c \in Cols : ticket'[r][c].value # Null
                                     => ticket'[r][c].value \in Range(history')]_vars

\* C25 witness: a win has been declared, and of the called numbers of the
\* ticket one is marked and another has been unmarked again or left unmarked.
C25_Witness ==
  /\ bingoStatus = "win"
  /\ \E r \in Rows : \E c \in Cols : ticket[r][c].marked
  /\ \E r \in Rows : \E c \in Cols :
        ~ticket[r][c].marked /\ ticket[r][c].value \in Range(history)

====
